---- MODULE Spec2Model ----
(***************************************************************************)
(* genfreqs.c: brute force search of the RP2040 PWM DIV and TOP register   *)
(* values that come closest to each note of an equal-tempered scale.       *)
(*                                                                         *)
(* Numbers.  The program computes in IEEE doubles; the model computes in   *)
(* whole Hz with truncating division (a fixed-point rendering of the same  *)
(* expressions, in the same order of operations).  TLC integers are 32 bit *)
(* wide, so the err field, which must hold 9999999999, is kept as two      *)
(* limbs <<hi, lo>> of value hi * LIMB + lo.  divf is kept as the pair     *)
(* <<whole part, sixteenths>>, which is what div * 0.0625 is exactly.      *)
(*                                                                         *)
(* Threads.  "#pragma omp parallel for" runs the div loop on a team of     *)
(* threads.  div and everything declared inside the loop are private; the  *)
(* cursor n is declared at line 50, outside the construct, and is          *)
(* therefore shared, as is the notes table.  Nothing orders the accesses   *)
(* of different threads, so every thread action below is one statement of  *)
(* the loop body and the actions of different threads interleave freely.   *)
(* The progress printf of line 60 writes to the status line only and is    *)
(* left out.                                                               *)
(***************************************************************************)
EXTENDS Integers, Sequences, FiniteSets, TLC

VARIABLES
    note_cnt,   \* NOTE_CNT of this build
    div_end,    \* the div loop runs div = DIV_MIN .. div_end - 1
    top_end,    \* the top loop runs top = TOP_MIN .. top_end - 1
    nthr,       \* size of the thread team of the parallel loop
    notes,      \* note notes[NOTE_CNT]
    n,          \* note *n, as an index: n = notes + n
    mpc,        \* where main is
    mi,         \* the loop counter i of main's own loops
    wk,         \* per thread: its place in the loop body and its private variables
    oob,        \* some thread dereferenced n while it pointed outside notes
    seen,       \* history: seen[i] = the (div, top) pairs whose iteration i has run
    out         \* what lines 77..99 have printed, as tokens

vars == <<note_cnt, div_end, top_end, nthr, notes, n, mpc, mi, wk, oob, seen, out>>

----------------------------------------------------------------------------
(* Program constants *)

SYS_FREQ_HZ == 280000000
BASE_NOTE == 69 - 24
OCTAVES == 5
NOTE_CNT == OCTAVES * 12

DIV_MIN == 16            \* 1<<4, first value of div
TOP_MIN == 0             \* first value of top
PER_LINE == 7            \* pairs per line of the table
NO_FREQ == -1            \* out_freq of a note that has no candidate yet

(* Bounds of the model.  The program searches div in 16..4095 (div_end =   *)
(* 1<<12) and top in 0..65535 (top_end = 65536) for NOTE_CNT notes.  The   *)
(* model runs the same loops over shorter ranges: a run on one thread      *)
(* searches div < DIV_END and top < TOP_END for any number of notes up to  *)
(* NOTE_CNT; a run on a team gives each of MaxThreads threads one div,     *)
(* with top < TeamTops, for MaxNotes notes.                                *)
DIV_END == 19
TOP_END == 3
MaxThreads == 2
MaxNotes == 2
TeamTops == 1

----------------------------------------------------------------------------
(* Arithmetic *)

LIMB == 10 ^ 5

Wide(x) == <<x \div LIMB, x % LIMB>>

WideLess(a, b) == a[1] < b[1] \/ (a[1] = b[1] /\ a[2] < b[2])

ERR_INIT == <<99999, 99999>>     \* 9999999999

Abs(x) == IF x < 0 THEN -x ELSE x

(* 2^(j/12) for j in 0..11, in units of 1/10000 *)
Semitone == <<10000, 10595, 11225, 11892, 12599, 13348,
              14142, 14983, 15874, 16818, 17818, 18877>>

(* 440. * pow(2, (i + BASE_NOTE - 69)/12.) *)
Freq(i) ==
    LET k == i + BASE_NOTE - 69 + 24      \* semitones above the lowest note
    IN  (440 * Semitone[(k % 12) + 1] * 2 ^ (k \div 12)) \div (10000 * 4)

(* (double)div * 0.0625 *)
Divf(div) == <<div \div 16, div % 16>>

(* (double)SYS_FREQ_HZ / divf *)
FreqDiv(divf) ==
    LET d == divf[1] * 16 + divf[2]
    IN  (SYS_FREQ_HZ \div d) * 16 + ((SYS_FREQ_HZ % d) * 16) \div d

(* freq_div / (double)(top + 1) *)
OutFreq(freq_div, top) == freq_div \div (top + 1)

(* fabs(n->freq - out_freq) *)
Err(freq, out_freq) == Wide(Abs(freq - out_freq))

(* err < n->err *)
Better(err, best) == WideLess(err, best)

----------------------------------------------------------------------------
(* State *)

Threads == 1..nthr

ZeroNote == [freq |-> 0, top |-> 0, div |-> 0, divf |-> <<0, 0>>,
             out_freq |-> 0, err |-> <<0, 0>>]

InBounds(p) == p >= 0 /\ p < note_cnt

(* What a read through a stray n may find where n->freq would be *)
Garbage == {0, SYS_FREQ_HZ}

(* The share of the div range that thread t of the team runs (static      *)
(* schedule: contiguous chunks, the first threads one iteration longer).   *)
ChunkLo(t) ==
    LET cnt == div_end - DIV_MIN
        q == cnt \div nthr
        r == cnt % nthr
    IN  DIV_MIN + (t - 1) * q + (IF t - 1 < r THEN t - 1 ELSE r)

ChunkHi(t) == IF t = nthr THEN div_end ELSE ChunkLo(t + 1)

IdleThread == [pc |-> "idle", div |-> 0, divf |-> <<0, 0>>, freq_div |-> 0, top |-> 0,
               out_freq |-> 0, i |-> 0, err |-> <<0, 0>>]

Start(cnt, team, dend, tend) ==
    /\ note_cnt = cnt
    /\ div_end = dend
    /\ top_end = tend
    /\ nthr = team
    /\ notes = [p \in 0..(cnt - 1) |-> ZeroNote]
    /\ n = 0
    /\ mpc = "init"
    /\ mi = 0
    /\ wk = [t \in 1..team |-> IdleThread]
    /\ oob = FALSE
    /\ seen = [p \in 0..(cnt - 1) |-> {}]
    /\ out = <<>>

(* A run on a team of threads *)
Init == Start(MaxNotes, MaxThreads, DIV_MIN + MaxThreads, TOP_MIN + TeamTops)

(* A run on one thread (OMP_NUM_THREADS=1, or built without -fopenmp) *)
InitOne == \E cnt \in 1..NOTE_CNT : Start(cnt, 1, DIV_END, TOP_END)

----------------------------------------------------------------------------
(* main, lines 50..55: fill in the target frequencies and the sentinels *)

InitNote ==
    /\ mpc = "init"
    /\ mi < note_cnt
    /\ notes' = [notes EXCEPT ![n] = [@ EXCEPT !.freq = Freq(mi),
                                               !.err = ERR_INIT,
                                               !.out_freq = NO_FREQ]]
    /\ mi' = mi + 1
    /\ n' = n + 1
    /\ UNCHANGED <<note_cnt, div_end, top_end, nthr, mpc, wk, oob, seen, out>>

(* line 57: the team starts, each thread at the head of its share *)
Fork ==
    /\ mpc = "init"
    /\ mi = note_cnt
    /\ mpc' = "search"
    /\ wk' = [t \in Threads |-> [IdleThread EXCEPT !.pc = "div", !.div = ChunkLo(t)]]
    /\ UNCHANGED <<note_cnt, div_end, top_end, nthr, notes, n, mi, oob, seen, out>>

----------------------------------------------------------------------------
(* The loop body, lines 58..76, as run by thread t of the team *)

Deref(t) == oob \/ ~InBounds(n)

(* lines 58..61: next div of the share, or the share is done *)
LoopDiv(t) ==
    /\ mpc = "search"
    /\ wk[t].pc = "div"
    /\ wk' = [wk EXCEPT ![t] =
                IF wk[t].div < ChunkHi(t)
                THEN [@ EXCEPT !.divf = Divf(wk[t].div),
                               !.freq_div = FreqDiv(Divf(wk[t].div)),
                               !.top = TOP_MIN,
                               !.pc = "top"]
                ELSE [@ EXCEPT !.pc = "end"]]
    /\ UNCHANGED <<note_cnt, div_end, top_end, nthr, notes, n, mpc, mi, oob, seen, out>>

(* lines 62..65: next top; out_freq, then n = notes and i = 0.  When top   *)
(* has run out: div++.                                                     *)
LoopTop(t) ==
    /\ mpc = "search"
    /\ wk[t].pc = "top"
    /\ IF wk[t].top < top_end
       THEN /\ wk' = [wk EXCEPT ![t] =
                        [@ EXCEPT !.out_freq = OutFreq(wk[t].freq_div, wk[t].top),
                                  !.i = 0,
                                  !.pc = "err"]]
            /\ n' = 0
       ELSE /\ wk' = [wk EXCEPT ![t] = [@ EXCEPT !.div = @ + 1, !.pc = "div"]]
            /\ n' = n
    /\ UNCHANGED <<note_cnt, div_end, top_end, nthr, notes, mpc, mi, oob, seen, out>>

(* line 66: err = fabs(n->freq - out_freq), n read now *)
ReadErr(t) ==
    /\ mpc = "search"
    /\ wk[t].pc = "err"
    /\ \E f \in (IF InBounds(n) THEN {notes[n].freq} ELSE Garbage) :
          wk' = [wk EXCEPT ![t] = [@ EXCEPT !.err = Err(f, wk[t].out_freq), !.pc = "cmp"]]
    /\ oob' = Deref(t)
    /\ UNCHANGED <<note_cnt, div_end, top_end, nthr, notes, n, mpc, mi, seen, out>>

(* line 67: if (err < n->err), n read now *)
Compare(t) ==
    /\ mpc = "search"
    /\ wk[t].pc = "cmp"
    /\ \E best \in (IF InBounds(n) THEN {notes[n].err} ELSE {Wide(0), ERR_INIT}) :
          wk' = [wk EXCEPT ![t] =
                   [@ EXCEPT !.pc = IF Better(wk[t].err, best) THEN "w_out" ELSE "inc"]]
    /\ oob' = Deref(t)
    /\ UNCHANGED <<note_cnt, div_end, top_end, nthr, notes, n, mpc, mi, seen, out>>

(* One of the stores of lines 68..72: field fld of the note n points to    *)
(* now; a store through a stray n lands outside the table.                 *)
Store(t, at, fld, val, then) ==
    /\ mpc = "search"
    /\ wk[t].pc = at
    /\ notes' = IF InBounds(n)
                THEN [notes EXCEPT ![n] = [fld2 \in DOMAIN @ |->
                                             IF fld2 = fld THEN val ELSE @[fld2]]]
                ELSE notes
    /\ wk' = [wk EXCEPT ![t] = [@ EXCEPT !.pc = then]]
    /\ oob' = Deref(t)
    /\ UNCHANGED <<note_cnt, div_end, top_end, nthr, n, mpc, mi, seen, out>>

StoreOutFreq(t) == Store(t, "w_out", "out_freq", wk[t].out_freq, "w_err")    \* line 68
StoreErr(t) == Store(t, "w_err", "err", wk[t].err, "w_top")                  \* line 69
StoreTop(t) == Store(t, "w_top", "top", wk[t].top, "w_div")                  \* line 70
StoreDiv(t) == Store(t, "w_div", "div", wk[t].div, "w_divf")                 \* line 71
StoreDivf(t) == Store(t, "w_divf", "divf", wk[t].divf, "inc")                \* line 72

(* line 65: i++, n++ and the loop test; past the last note: top++.  The    *)
(* increment of the shared n is taken as one step.                         *)
Advance(t) ==
    /\ mpc = "search"
    /\ wk[t].pc = "inc"
    /\ n' = n + 1
    /\ seen' = [seen EXCEPT ![wk[t].i] = @ \cup {<<wk[t].div, wk[t].top>>}]
    /\ wk' = [wk EXCEPT ![t] =
                IF wk[t].i + 1 < note_cnt
                THEN [@ EXCEPT !.i = @ + 1, !.pc = "err"]
                ELSE [@ EXCEPT !.i = @ + 1, !.top = @ + 1, !.pc = "top"]]
    /\ UNCHANGED <<note_cnt, div_end, top_end, nthr, notes, mpc, mi, oob, out>>

----------------------------------------------------------------------------
(* main after the loop, lines 77..101 *)

Emit(toks) == out' = out \o toks

(* line 76/77: every thread is through its share; the status line is cleared *)
Join ==
    /\ mpc = "search"
    /\ \A t \in Threads : wk[t].pc = "end"
    /\ mpc' = "report"
    /\ Emit(<<[k |-> "clear"]>>)
    /\ n' = 0                                   \* line 79
    /\ mi' = 0
    /\ UNCHANGED <<note_cnt, div_end, top_end, nthr, notes, wk, oob, seen>>

(* lines 81..86: what the report prints for the note n points to *)
ReportLine(i, nt) ==
    IF nt.out_freq = NO_FREQ
    THEN [k |-> "noconfig", i |-> i]
    ELSE [k |-> "line", i |-> i, freq |-> nt.freq, out_freq |-> nt.out_freq,
          err |-> nt.err, div |-> nt.div, divf |-> nt.divf, top |-> nt.top]

(* lines 80..87, one note; after the last one lines 89..91 *)
Report ==
    /\ mpc = "report"
    /\ IF mi < note_cnt
       THEN /\ Emit(<<ReportLine(mi, notes[n])>>)
            /\ mi' = mi + 1
            /\ n' = n + 1
            /\ mpc' = mpc
       ELSE /\ Emit(<<[k |-> "header"], [k |-> "open"]>>)
            /\ mi' = 0
            /\ n' = 0
            /\ mpc' = "table"
    /\ UNCHANGED <<note_cnt, div_end, top_end, nthr, notes, wk, oob, seen>>

(* line 94 *)
WantsComma(i) == i < note_cnt - 1

WantsBreakEverySeventh(i) == i % PER_LINE = PER_LINE - 1

(* line 96 *)
WantsBreak(i) == (i % PER_LINE = PER_LINE - 1) /\ (i < note_cnt - 1)

(* lines 93..97: what the table loop prints for note i *)
TableEntry(i, nt) ==
    <<[k |-> "pair", div |-> nt.div, top |-> nt.top]>>
    \o (IF WantsComma(i) THEN <<[k |-> "comma"]>> ELSE <<>>)
    \o (IF WantsBreak(i) THEN <<[k |-> "break"]>> ELSE <<>>)

(* lines 92..99, one note; after the last one the closing bracket *)
Table ==
    /\ mpc = "table"
    /\ IF mi < note_cnt
       THEN /\ Emit(TableEntry(mi, notes[n]))
            /\ mi' = mi + 1
            /\ n' = n + 1
            /\ mpc' = mpc
       ELSE /\ Emit(<<[k |-> "close"]>>)
            /\ mi' = mi
            /\ n' = n
            /\ mpc' = "done"
    /\ UNCHANGED <<note_cnt, div_end, top_end, nthr, notes, wk, oob, seen>>

Next ==
    \/ InitNote
    \/ Fork
    \/ \E t \in Threads : LoopDiv(t)
    \/ \E t \in Threads : LoopTop(t)
    \/ \E t \in Threads : ReadErr(t)
    \/ \E t \in Threads : Compare(t)
    \/ \E t \in Threads : StoreOutFreq(t)
    \/ \E t \in Threads : StoreErr(t)
    \/ \E t \in Threads : StoreTop(t)
    \/ \E t \in Threads : StoreDiv(t)
    \/ \E t \in Threads : StoreDivf(t)
    \/ \E t \in Threads : Advance(t)
    \/ Join
    \/ Report
    \/ Table

Spec == Init /\ [][Next]_vars

SpecOne == InitOne /\ [][Next]_vars

----------------------------------------------------------------------------
(* Vocabulary of the properties *)

NoteIdx == 0..(note_cnt - 1)

(* The search space of this run *)
Divs == DIV_MIN..(div_end - 1)
Tops == TOP_MIN..(top_end - 1)

(* The output frequency of the pair (d, tp) and its distance from note i *)
PairOut(d, tp) == OutFreq(FreqDiv(Divf(d)), tp)
PairErr(i, d, tp) == Err(Freq(i), PairOut(d, tp))

Searched == mpc \in {"report", "table", "done"}

Resolved(i) == notes[i].out_freq # NO_FREQ

(* The five best fields of note i are those of the one pair (div, top) it stores *)
OneCandidate(i) ==
    /\ notes[i].div \in Divs
    /\ notes[i].top \in Tops
    /\ notes[i].divf = Divf(notes[i].div)
    /\ notes[i].out_freq = PairOut(notes[i].div, notes[i].top)
    /\ notes[i].err = Err(notes[i].freq, notes[i].out_freq)

(* The run of the two loops in ascending order on one thread: the note     *)
(* after the first k pairs, pair number k being (d, tp).                   *)
RECURSIVE SeqBest(_, _)
SeqBest(i, k) ==
    IF k = 0
    THEN [freq |-> Freq(i), top |-> 0, div |-> 0, divf |-> <<0, 0>>,
          out_freq |-> NO_FREQ, err |-> ERR_INIT]
    ELSE LET prev == SeqBest(i, k - 1)
             width == top_end - TOP_MIN
             d == DIV_MIN + ((k - 1) \div width)
             tp == TOP_MIN + ((k - 1) % width)
         IN  IF WideLess(PairErr(i, d, tp), prev.err)
             THEN [freq |-> prev.freq, top |-> tp, div |-> d, divf |-> Divf(d),
                   out_freq |-> PairOut(d, tp), err |-> PairErr(i, d, tp)]
             ELSE prev

SeqResult(i) == SeqBest(i, (div_end - DIV_MIN) * (top_end - TOP_MIN))

(* The statements of lines 66..73 and the i++, n++ that ends the iteration *)
InBody == {"err", "cmp", "w_out", "w_err", "w_top", "w_div", "w_divf", "inc"}
InUpdate == {"cmp", "w_out", "w_err", "w_top", "w_div", "w_divf"}

IsPair(x) == x.k = "pair"
IsLine(x) == x.k = "line"
TablePairs == SelectSeq(out, IsPair)

(* The table block: what follows the opening bracket *)
OpenAt == CHOOSE p \in 1..Len(out) : out[p].k = "open"
TableBlock == SubSeq(out, OpenAt + 1, Len(out))
PairsUpTo(blk, p) == Cardinality({q \in 1..p : IsPair(blk[q])})
KindAt(blk, p) == IF p \in 1..Len(blk) THEN blk[p].k ELSE "nothing"

(* The entries of the table, one per note: a pair, or a flag *)
IsEntry(x) == x.k \in {"pair", "noconfig"}
TableEntries == SelectSeq(TableBlock, IsEntry)

----------------------------------------------------------------------------
(* Properties *)

(* C1: after the search every note's err is |freq - out_freq| and no pair  *)
(* of the search space is strictly closer to the note.                     *)
C1_ExhaustiveMin ==
    Searched =>
        \A i \in NoteIdx :
            /\ notes[i].err = Err(notes[i].freq, notes[i].out_freq)
            /\ \A d \in Divs, tp \in Tops : ~WideLess(PairErr(i, d, tp), notes[i].err)

(* C2: whatever the interleaving, the best fields of every note after the  *)
(* search are those of the sequential ascending run.                       *)
C2_SameAsSequential ==
    Searched => \A i \in NoteIdx : notes[i] = SeqResult(i)

(* C3: whenever no thread is inside its update of a resolved note, the     *)
(* note's five best fields come from one single candidate.                 *)
C3_AtomicGroup ==
    \A i \in NoteIdx :
        (mpc # "init" /\ Resolved(i) /\ \A t \in Threads : ~(wk[t].pc \in InUpdate /\ wk[t].i = i))
            => OneCandidate(i)

(* C4: during the search every change of a note's err makes it strictly    *)
(* smaller.                                                                *)
C4_StrictDecrease ==
    [][ mpc = "search" =>
          \A i \in NoteIdx :
              notes'[i].err # notes[i].err => WideLess(notes'[i].err, notes[i].err) ]_vars

(* C5: at any point of the search where no thread is inside an update, a   *)
(* note's err is the sentinel while nothing was evaluated for it, and      *)
(* otherwise |freq - out_freq| and the least error of the pairs evaluated  *)
(* for it so far.                                                          *)
C5_RunningMin ==
    (mpc = "search" /\ \A t \in Threads : wk[t].pc \notin InUpdate \cup {"inc"}) =>
        \A i \in NoteIdx :
            IF seen[i] = {}
            THEN notes[i].err = ERR_INIT /\ notes[i].out_freq = NO_FREQ
            ELSE /\ notes[i].err = Err(notes[i].freq, notes[i].out_freq)
                 /\ \E c \in seen[i] : notes[i].err = PairErr(i, c[1], c[2])
                 /\ \A c \in seen[i] : ~WideLess(PairErr(i, c[1], c[2]), notes[i].err)

(* C6: every div and top printed, in a report line or in the table, lies   *)
(* in the range searched.                                                  *)
C6_InRange ==
    \A p \in 1..Len(out) :
        (IsPair(out[p]) \/ IsLine(out[p])) => (out[p].div \in Divs /\ out[p].top \in Tops)

(* C7: once the output is complete, all notes were reported in index       *)
(* order, and a note that has no candidate is flagged as such both in the  *)
(* report and in its entry of the table, not emitted there as a pair.      *)
C7_UnresolvedFlagged ==
    mpc = "done" =>
        /\ \A i \in NoteIdx : out[i + 2].k \in {"line", "noconfig"} /\ out[i + 2].i = i
        /\ \A i \in NoteIdx :
              ~Resolved(i) =>
                  /\ out[i + 2].k = "noconfig"
                  /\ TableEntries[i + 1].k = "noconfig"

(* C8: the err sentinel exceeds every possible error, and after the        *)
(* search every note has been updated at least once.                       *)
C8_AllResolved ==
    /\ WideLess(Wide(SYS_FREQ_HZ), ERR_INIT)
    /\ \A i \in NoteIdx, d \in Divs, tp \in Tops : WideLess(PairErr(i, d, tp), ERR_INIT)
    /\ Searched => \A i \in NoteIdx : Resolved(i) /\ notes[i].div \in Divs


(* C9: the table holds exactly note_cnt pairs, pair i being note i's       *)
(* (div, top); a comma follows every pair but the last; a line break       *)
(* follows the comma of pair i exactly when i mod 7 = 6 and i is not the   *)
(* last; nothing else is in the block but the closing bracket.             *)
C9_TableShape ==
    mpc = "done" =>
        LET blk == TableBlock
            last == note_cnt - 1
        IN  /\ Len(TablePairs) = note_cnt
            /\ \A i \in NoteIdx :
                  TablePairs[i + 1] = [k |-> "pair", div |-> notes[i].div, top |-> notes[i].top]
            /\ KindAt(blk, Len(blk)) = "close"
            /\ \A p \in 1..Len(blk) :
                  LET i == PairsUpTo(blk, p) - 1
                  IN  /\ blk[p].k \in {"pair", "comma", "break", "close"}
                      /\ blk[p].k = "pair" =>
                            KindAt(blk, p + 1) = (IF i = last THEN "close" ELSE "comma")
                      /\ blk[p].k = "comma" =>
                            /\ KindAt(blk, p - 1) = "pair"
                            /\ KindAt(blk, p + 1) = (IF i % 7 = 6 /\ i # last THEN "break"
                                                                             ELSE "pair")
                      /\ blk[p].k = "break" =>
                            /\ KindAt(blk, p - 1) = "comma"
                            /\ KindAt(blk, p + 1) = "pair"
                      /\ blk[p].k = "close" => p = Len(blk)

(* A finished 60-note table with its last line break behind it *)
C9_Witness ==
    /\ mpc = "done"
    /\ note_cnt = NOTE_CNT
    /\ Cardinality({p \in 1..Len(out) : out[p].k = "break"}) = 8
    /\ Cardinality({p \in 1..Len(out) : out[p].k = "comma"}) = NOTE_CNT - 1

(* C10: while a thread is in iteration i of the note loop, the cursor n    *)
(* points to notes[i], inside the table.                                   *)
C10_CursorOwnNote ==
    /\ ~oob
    /\ \A t \in Threads : wk[t].pc \in InBody => (n = wk[t].i /\ InBounds(n))

====
